---- MODULE Spec2Model ----
(***************************************************************************)
(* The waiting hall of a dokojong room: src/game.py (Room), src/user.py    *)
(* (User) and the connection life cycle around them.                       *)
(*                                                                         *)
(* A User object is a number of Objs, a websocket a number of Conns; None  *)
(* (0) is Python's None for both.  The room and every User field are kept  *)
(* in one record ("st") so that each handler is an operator from the state *)
(* before to the state after, written in the order of the code; an action  *)
(* of the specification dispatches one frame and commits the result.       *)
(* Python's list indexing is kept: an index i of a list of length n is     *)
(* valid for -n <= i < n, a negative one counts from the end, any other    *)
(* raises IndexError.                                                      *)
(***************************************************************************)
EXTENDS Integers, Sequences, FiniteSets, TLC

\* ---------------------------------------------------------------- bounds
NumUsers == 2      \* user ids (cookies) that ever connect; also the pool of User objects
MaxSeats == 3      \* add_seat is not taken beyond this length
MaxOrder == 2      \* take_seat by an unseated user is not taken once order_issuer is this
Players == 3       \* the seated users of the succession scenarios
LoginConns == 3    \* websockets that carry the one user id of the duplicate logins
LoginObjs == 2     \* User objects of the duplicate logins
MaxPosition == 1   \* dog.place frames carry a position of 0..MaxPosition

\* Room.__init__(seat_number = 2)
seat_number == 2

None == 0

UserIds == 1..NumUsers
Objs == 1..NumUsers
\* one websocket per user id
Conns == 1..NumUsers
\* the nickname a client sends: each client its own
NicknamesOf(c) == {<<"n1", "n2", "n3", "n4">>[((c - 1) % 4) + 1]}
\* what a client may put in the "seat" field: -1 (the last seat of a list that
\* has one, out of range for an empty list), every index that can be valid,
\* and MaxSeats, which never is
SeatInputs == (0 - 1)..MaxSeats

\* the user_id cookie a websocket carries: websockets beyond the number of user
\* ids are second logins
UidOf(st, c) == ((c - 1) % Len(st.users)) + 1

VARIABLES
    seats,         \* Room.seats: sequence of Objs or None
    users,         \* Room.users: user id -> User object or None (absent)
    operator,      \* Room.operator
    order_issuer,  \* Room.order_issuer
    gaming,        \* Room.gaming
    settings,      \* Room.settings["quick_game"]
    leader,        \* Room.leader (None: not yet assigned)
    last_message,  \* Room.last_message ("": not yet assigned)
    player_active, \* Room.player_active (<<>>: not yet assigned)
    player_dogs,   \* Room.player_dogs (<<>>: not yet assigned)
    ws,            \* User.ws
    seat,          \* User.seat
    nickname,      \* User.nickname
    order,         \* User.order
    cstate,        \* websocket: "free", "open", "rebinding", "closed"
    ctarget,       \* the User a websocket's receive loop passes to handle_data
    out            \* what the last operation was and what it sent or raised

vars == <<seats, users, operator, order_issuer, gaming, settings, leader,
          last_message, player_active, player_dogs,
          ws, seat, nickname, order, cstate, ctarget, out>>

Range(f) == {f[x] : x \in DOMAIN f}

\* ------------------------------------------------------------ Python lists
InRange(sq, i) == (0 - Len(sq)) <= i /\ i < Len(sq)
\* the 1-based position of Python index i
Pos(sq, i) == IF i >= 0 THEN i + 1 ELSE Len(sq) + i + 1
\* list.pop(i)
Pop(sq, i) == [k \in 1..(Len(sq) - 1) |-> IF k < Pos(sq, i) THEN sq[k] ELSE sq[k + 1]]

\* ------------------------------------------------------------------ state
Cur == [seats |-> seats, users |-> users, operator |-> operator,
        order_issuer |-> order_issuer, gaming |-> gaming, settings |-> settings,
        leader |-> leader, last_message |-> last_message,
        player_active |-> player_active, player_dogs |-> player_dogs,
        ws |-> ws, seat |-> seat, nickname |-> nickname,
        order |-> order, cstate |-> cstate, ctarget |-> ctarget, out |-> out]

\* out: the operation (op) with its sender (me) and seat or websocket (arg), the
\* operator it found (was), the data type it sent (kind) to the sender or to
\* all ("me", "all"), and the exception that left it (raised)
\* a JSON value of a frame: its Python type and its value as a number (a bool
\* as 0 or 1, which is also what Python computes with; a string as its number)
Absent == [t |-> "absent", v |-> 0]
JInt(n) == [t |-> "int", v |-> n]
JBool(b) == [t |-> "bool", v |-> IF b THEN 1 ELSE 0]
JStr(n) == [t |-> "str", v |-> n]
\* a frame as received, before make_handler has looked at its fields
NoRaw == [type |-> "", seat |-> Absent, nickname |-> Absent, quick |-> Absent,
          position |-> Absent]

NoOut == [op |-> "", me |-> None, arg |-> 0, was |-> None, kind |-> "", to |-> "",
          raised |-> "", raw |-> NoRaw]

\* WebSocket.client_state == CONNECTED: accepted, and no disconnect received yet
ClientConnected(st, c) == st.cstate[c] \in {"open", "rebinding", "closed"}

\* User.is_online
is_online(st, u) == IF st.ws[u] = None THEN FALSE ELSE ClientConnected(st, st.ws[u])

\* User.is_player
is_player(st, u) == st.seat[u] > -1

\* User.take_seat(seat, nickname, order = None)
user_take_seat(st, u, s, nick) ==
    [st EXCEPT !.seat[u] = s, !.nickname[u] = nick]

user_take_seat_order(st, u, s, nick, ord) ==
    [st EXCEPT !.seat[u] = s, !.nickname[u] = nick, !.order[u] = ord]

\* User.leave_seat
leave_seat(st, u) == [st EXCEPT !.seat[u] = -1, !.order[u] = 0]

\* Room.get_seat_status(me)
get_seat_status(st, me) ==
    [k \in 1..Len(st.seats) |->
        IF st.seats[k] = None THEN <<>>
        ELSE <<[nickname |-> st.nickname[st.seats[k]],
                online |-> is_online(st, st.seats[k]),
                me |-> st.seats[k] = me,
                operator |-> st.seats[k] = st.operator]>>]

\* an exception leaving the handler
Raise(st, e) == [st EXCEPT !.out.raised = e]

\* the data types Room.send_data_to has a case for
DataKinds == {"room.status", "seat.status", "game.settings", "game.status",
              "tiles.setup", "dog.place"}

\* Room.broadcast_data: one send task per value of Room.users, each running
\* send_data_to
broadcast_data(st, kind) ==
    IF kind \notin DataKinds /\ \E i \in DOMAIN st.users : st.users[i] # None
    THEN Raise([st EXCEPT !.out.kind = kind, !.out.to = "all"], "No such data type")
    ELSE [st EXCEPT !.out.kind = kind, !.out.to = "all"]

\* Room.send_data_to(user, kind); the last case raises RuntimeError("No such
\* data type")
send_data_to(st, kind) ==
    IF kind \notin DataKinds
    THEN Raise([st EXCEPT !.out.kind = kind, !.out.to = "me"], "No such data type")
    ELSE [st EXCEPT !.out.kind = kind, !.out.to = "me"]

\* ------------------------------------------------ handlers of the waiting hall
\* Room.hall_init
hall_init(st, me) ==
    IF is_player(st, me)
    THEN broadcast_data(IF st.operator = None THEN [st EXCEPT !.operator = me] ELSE st,
                        "seat.status")
    ELSE send_data_to(st, "seat.status")

\* take_seat_guard without the test that the seat is empty
take_seat_guard_not_mine(st, me, s) ==
    st.seat[me] # s

\* take_seat_guard letting a user take the seat it is in
take_seat_guard_free_or_mine(st, me, s) ==
    st.seats[Pos(st.seats, s)] \in {None, me}

\* the condition of Room.take_seat, line 195, for an index the list has
take_seat_guard(st, me, s) ==
    st.seat[me] # s /\ st.seats[Pos(st.seats, s)] = None

\* Room.take_seat: "and" does not read self.seats[seat] when me.seat == seat
take_seat(st, me, s, nick) ==
    IF st.seat[me] # s /\ ~InRange(st.seats, s) THEN Raise(st, "IndexError")
    ELSE IF ~InRange(st.seats, s) THEN st
    ELSE IF ~take_seat_guard(st, me, s) THEN st
    ELSE
        LET s1 == [st EXCEPT !.seats[Pos(st.seats, s)] = me] IN
        IF is_player(st, me) /\ ~InRange(s1.seats, st.seat[me])
        THEN Raise(s1, "IndexError")
        ELSE
            LET s2 == IF is_player(st, me)
                      THEN user_take_seat(
                               [s1 EXCEPT !.seats[Pos(s1.seats, st.seat[me])] = None],
                               me, s, nick)
                      ELSE user_take_seat_order(
                               [s1 EXCEPT !.order_issuer = @ + 1],
                               me, s, nick, s1.order_issuer + 1)
                s3 == IF s2.operator = None THEN [s2 EXCEPT !.operator = me] ELSE s2
            IN broadcast_data(s3, "seat.status")

\* the loop of Room.remove_seat that adjusts the players' seats: the last
\* position of a player in the list wins
Reindex(st) ==
    [st EXCEPT !.seat = [u \in DOMAIN st.seat |->
        IF \E k \in 1..Len(st.seats) : st.seats[k] = u
        THEN (CHOOSE k \in 1..Len(st.seats) :
                  /\ st.seats[k] = u
                  /\ \A j \in 1..Len(st.seats) : st.seats[j] = u => j <= k) - 1
        ELSE st.seat[u]]]

\* Room.remove_seat
remove_seat(st, me, s) ==
    IF ~InRange(st.seats, s) THEN Raise(st, "IndexError")
    ELSE IF st.seats[Pos(st.seats, s)] # None THEN st
    ELSE broadcast_data(Reindex([st EXCEPT !.seats = Pop(st.seats, s)]), "seat.status")

\* Candidate keeping the first online player it meets, whatever its order
RECURSIVE CandidateFirst(_, _, _)
CandidateFirst(st, k, cand) ==
    IF k > Len(st.seats) THEN cand
    ELSE LET player == st.seats[k] IN
         IF player # None /\ is_online(st, player) /\ cand = None
         THEN CandidateFirst(st, k + 1, player)
         ELSE CandidateFirst(st, k + 1, cand)

\* the candidate search of Room.remove_player: scanning from position k with
\* the candidate found so far
RECURSIVE Candidate(_, _, _)
Candidate(st, k, cand) ==
    IF k > Len(st.seats) THEN cand
    ELSE LET player == st.seats[k] IN
         IF player # None /\ is_online(st, player)
            /\ (cand = None \/ st.order[player] < st.order[cand])
         THEN Candidate(st, k + 1, player)
         ELSE Candidate(st, k + 1, cand)

\* Room.remove_player
remove_player(st, me, s) ==
    IF ~InRange(st.seats, s) THEN Raise(st, "IndexError")
    ELSE
        LET player_to_remove == st.seats[Pos(st.seats, s)]
            remove_myself == player_to_remove = me
            im_operator == me = st.operator
        IN
        IF player_to_remove = None THEN st
        ELSE IF ~(remove_myself \/ im_operator) THEN st
        ELSE
            LET s1 == leave_seat(st, player_to_remove)
                s2 == [s1 EXCEPT !.seats[Pos(st.seats, s)] = None]
                s3 == IF remove_myself /\ im_operator
                      THEN [s2 EXCEPT !.operator = Candidate(s2, 1, None)]
                      ELSE s2
            IN broadcast_data(s3, "seat.status")

\* Room.add_seat
add_seat(st, me) ==
    broadcast_data([st EXCEPT !.seats = Append(@, None)], "seat.status")

\* take_operator without the test of the current operator
take_operator_unchecked(st, me) ==
    broadcast_data([st EXCEPT !.operator = me], "seat.status")

\* Room.take_operator
take_operator(st, me) ==
    IF st.operator = None \/ ~is_online(st, st.operator)
    THEN broadcast_data([st EXCEPT !.operator = me], "seat.status")
    ELSE st

\* Room.change_settings
change_settings(st, me, quick) ==
    IF quick # st.settings
    THEN broadcast_data([st EXCEPT !.settings = quick], "game.settings")
    ELSE st

\* Room.start_game after the leader is set: the fields of the game.  The
\* doors, scores and tiles it also sets are never given another value by any
\* handler and are left out
game_fields(st) ==
    [st EXCEPT !.player_dogs = [k \in 1..Len(st.seats) |-> -1],
               !.last_message = "tiles.setup",
               !.player_active = [k \in 1..Len(st.seats) |-> TRUE]]

\* start_game without the return at an empty seat
start_game_unchecked(st, me) ==
    LET s1 == [st EXCEPT !.gaming = TRUE] IN
    IF Len(st.seats) = 0 THEN Raise(s1, "IndexError")
    ELSE broadcast_data(game_fields([s1 EXCEPT !.leader = st.seats[1]]), "room.status")

\* Room.start_game: gaming is set before players[0] is read
start_game(st, me) ==
    IF \E k \in 1..Len(st.seats) : st.seats[k] = None THEN st
    ELSE LET s1 == [st EXCEPT !.gaming = TRUE] IN
         IF Len(st.seats) = 0 THEN Raise(s1, "IndexError")
         ELSE broadcast_data(game_fields([s1 EXCEPT !.leader = st.seats[1]]), "room.status")

\* ------------------------------------------------- handlers of the game board
\* Room.board_init: the arguments of gather are evaluated first, and reading
\* last_message before start_game has assigned it raises AttributeError
board_init(st, me) ==
    IF st.last_message = "" THEN Raise(st, "AttributeError")
    ELSE send_data_to(st, st.last_message)

\* Room.set_active(seat): every flag False, then the one of the seat True
set_active(st, s) ==
    IF ~InRange(st.player_active, s) THEN Raise(st, "IndexError")
    ELSE [st EXCEPT !.player_active =
             [k \in 1..Len(st.player_active) |-> k = Pos(st.player_active, s)]]

\* Room.place_dog
place_dog(st, me, position) ==
    IF ~InRange(st.player_dogs, st.seat[me]) THEN Raise(st, "IndexError")
    ELSE
        LET i == Pos(st.player_dogs, st.seat[me])
            s1 == send_data_to([st EXCEPT !.player_dogs[i] = position], "dog.place")
            s2 == [s1 EXCEPT !.player_active[i] = FALSE]
            s3 == IF \A k \in 1..Len(s2.player_active) : ~s2.player_active[k]
                  THEN set_active([s2 EXCEPT !.last_message = "player.act"],
                                  s2.seat[s2.leader])
                  ELSE s2
        IN IF s3.out.raised # "" THEN s3
           ELSE broadcast_data(broadcast_data(s3, "game.status"), s3.last_message)

\* ---------------------------------------------------------------- decorators
\* Room.check_active, once player_active can be read for the target's seat
check_active(st, target) ==
    is_player(st, target) /\ st.player_active[Pos(st.player_active, st.seat[target])]

\* check_gaming letting every frame through
check_gaming_any(st, positive) == TRUE

\* Room.check_gaming(positive)
check_gaming(st, positive) == st.gaming = positive

\* check_operator letting every sender through
check_operator_any(st, target, positive) == TRUE

\* Room.check_operator(positive)
check_operator(st, target, positive) == (target = st.operator) = positive

\* Room.handle_data with a frame whose fields have the annotated types: the
\* registered function is the decorator chain below add_handler
handle_data(st, target, data) ==
    LET s0 == [st EXCEPT !.out = [NoOut EXCEPT !.op = data.type, !.me = target,
                                               !.arg = data.seat, !.was = st.operator]]
        t == data.type
    IN
    IF t = "hall.init" THEN
        IF check_gaming(s0, FALSE) THEN hall_init(s0, target) ELSE s0
    ELSE IF t = "user.take_seat" THEN
        IF check_gaming(s0, FALSE)
        THEN take_seat(s0, target, data.seat, data.nickname) ELSE s0
    ELSE IF t = "room.remove_seat" THEN
        IF check_operator(s0, target, TRUE) /\ check_gaming(s0, FALSE)
        THEN remove_seat(s0, target, data.seat) ELSE s0
    ELSE IF t = "room.remove_player" THEN
        IF check_gaming(s0, FALSE) THEN remove_player(s0, target, data.seat) ELSE s0
    ELSE IF t = "room.add_seat" THEN
        IF check_operator(s0, target, TRUE) /\ check_gaming(s0, FALSE)
        THEN add_seat(s0, target) ELSE s0
    ELSE IF t = "player.take_operator" THEN
        IF check_operator(s0, target, FALSE) /\ check_gaming(s0, FALSE)
        THEN take_operator(s0, target) ELSE s0
    ELSE IF t = "game.change_settings" THEN
        IF check_operator(s0, target, TRUE) /\ check_gaming(s0, FALSE)
        THEN change_settings(s0, target, data.quick) ELSE s0
    ELSE IF t = "game.start" THEN
        IF check_operator(s0, target, TRUE) /\ check_gaming(s0, FALSE)
        THEN start_game(s0, target) ELSE s0
    ELSE IF t = "board.init" THEN
        IF check_gaming(s0, TRUE) THEN board_init(s0, target) ELSE s0
    ELSE IF t = "dog.place" THEN
        \* check_active is the outermost decorator: it reads player_active
        \* whatever the stage
        IF ~is_player(s0, target) THEN s0
        ELSE IF s0.last_message = "" THEN Raise(s0, "AttributeError")
        ELSE IF ~InRange(s0.player_active, s0.seat[target]) THEN Raise(s0, "IndexError")
        ELSE IF check_active(s0, target) /\ check_gaming(s0, TRUE)
        THEN place_dog(s0, target, data.position) ELSE s0
    ELSE s0

Frame(t, s, nick, quick) == [type |-> t, seat |-> s, nickname |-> nick, quick |-> quick]

\* a dog.place frame
DogFrame(p) == [type |-> "dog.place", seat |-> 0, nickname |-> "", quick |-> FALSE,
                position |-> p]

\* ------------------------------------------------- registration, disconnection
\* the User objects something still refers to
Referenced(st) ==
    (Range(st.users) \cup Range(st.seats) \cup {st.operator, st.leader}
     \cup {st.ctarget[c] : c \in DOMAIN st.ctarget})
    \ {None}

\* User.__init__: a new object is any object nothing refers to
NewUser(st) ==
    CHOOSE u \in DOMAIN st.seat :
        /\ u \notin Referenced(st)
        /\ \A v \in DOMAIN st.seat : v \notin Referenced(st) => u <= v

\* Room.register_user up to the await of User.update_ws (ws.close) or, when
\* nothing is awaited, to its end
\* (a websocket takes one close message: WebSocket.close on one that has
\* been sent a close raises RuntimeError, and the registration ends there)
register_user(st, c, user_id) ==
    LET s0 == [st EXCEPT !.out = [NoOut EXCEPT !.op = "user.register", !.arg = c,
                                               !.was = st.operator]] IN
    IF st.users[user_id] # None THEN
        LET user == st.users[user_id] IN
        IF st.ws[user] = c
        THEN [s0 EXCEPT !.cstate[c] = "open", !.ctarget[c] = user, !.out.me = user]
        ELSE IF is_online(st, user) /\ st.cstate[st.ws[user]] = "closed"
        THEN Raise([s0 EXCEPT !.out.me = user], "RuntimeError")
        ELSE IF is_online(st, user)
        THEN [s0 EXCEPT !.cstate[st.ws[user]] = "closed", !.cstate[c] = "rebinding",
                        !.ctarget[c] = user, !.out.me = user, !.out.kind = "close"]
        ELSE send_data_to([s0 EXCEPT !.ws[user] = c, !.cstate[c] = "open",
                                     !.ctarget[c] = user, !.out.me = user],
                          "room.status")
    ELSE
        LET user == NewUser(st) IN
        send_data_to([s0 EXCEPT !.users[user_id] = user, !.ws[user] = c,
                                !.seat[user] = -1, !.nickname[user] = "", !.order[user] = 0,
                                !.cstate[c] = "open", !.ctarget[c] = user, !.out.me = user],
                     "room.status")

\* the rest of Room.register_user once ws.close has returned
register_bind(st, c) ==
    LET user == st.ctarget[c]
        s0 == [st EXCEPT !.out = [NoOut EXCEPT !.op = "user.bind", !.arg = c, !.me = user,
                                               !.was = st.operator]]
    IN send_data_to([s0 EXCEPT !.ws[user] = c, !.cstate[c] = "open"], "room.status")

\* unregister_user deleting the record of a seated user too
unregister_user_delete(st, c, user_id) ==
    [st EXCEPT !.cstate[c] = "free", !.ctarget[c] = None, !.users[user_id] = None,
               !.out = [NoOut EXCEPT !.op = "disconnect", !.arg = c,
                                     !.was = st.operator, !.me = st.users[user_id]]]

\* Room.unregister_user, called when the websocket's receive raises
\* WebSocketDisconnect
unregister_user(st, c, user_id) ==
    LET s0 == [st EXCEPT !.cstate[c] = "free", !.ctarget[c] = None,
                         !.out = [NoOut EXCEPT !.op = "disconnect", !.arg = c,
                                               !.was = st.operator,
                                               !.me = st.users[user_id]]]
    IN
    IF st.users[user_id] # None THEN
        LET user == st.users[user_id] IN
        IF is_player(st, user)
        THEN broadcast_data([s0 EXCEPT !.ws[user] = None], "seat.status")
        ELSE [s0 EXCEPT !.users[user_id] = None]
    ELSE s0

\* Python frees what nothing refers to: a User object nothing refers to has the
\* field values of a new one.  A websocket that has disconnected is the same as
\* no websocket to every reader of User.ws (is_online is False for both, and a
\* new websocket is never that object), so a User bound to one is shown unbound
Collect(st) ==
    LET live == Referenced(st) IN
    [st EXCEPT !.ws = [u \in DOMAIN st.ws |->
                          IF u \in live /\ st.ws[u] # None /\ st.cstate[st.ws[u]] # "free"
                          THEN st.ws[u] ELSE None],
               !.seat = [u \in DOMAIN st.seat |-> IF u \in live THEN st.seat[u] ELSE -1],
               !.nickname = [u \in DOMAIN st.nickname |-> IF u \in live THEN st.nickname[u] ELSE ""],
               !.order = [u \in DOMAIN st.order |-> IF u \in live THEN st.order[u] ELSE 0]]

Commit(st) ==
    \E n \in {Collect(st)} :
    /\ seats' = n.seats
    /\ users' = n.users
    /\ operator' = n.operator
    /\ order_issuer' = n.order_issuer
    /\ gaming' = n.gaming
    /\ settings' = n.settings
    /\ leader' = n.leader
    /\ last_message' = n.last_message
    /\ player_active' = n.player_active
    /\ player_dogs' = n.player_dogs
    /\ ws' = n.ws
    /\ seat' = n.seat
    /\ nickname' = n.nickname
    /\ order' = n.order
    /\ cstate' = n.cstate
    /\ ctarget' = n.ctarget
    /\ out' = n.out

\* ------------------------------------------------- the asyncio side of a room
VARIABLES
    pc,      \* websocket: "recv" (in receive), "frame" (a frame has arrived),
             \* "await" (its handler is suspended in broadcast_data), "done"
    frame,   \* websocket: the frame that has arrived
    tasks,   \* the send tasks broadcast_data has created and that have not run
    snap,    \* the seat.status most recently computed by a send task
    lock,    \* the asyncio.Lock of each with_lock wrapper: its holder, or None
    seat0    \* User.seat when the frames arrived

asyncVars == <<pc, frame, tasks, snap, lock, seat0>>
roomVars == <<seats, users, operator, order_issuer, gaming, settings, leader,
              last_message, player_active, player_dogs,
              ws, seat, nickname, order, cstate, ctarget, out>>
allVars == <<roomVars, asyncVars>>

NoFrame == [type |-> "", seat |-> 0, nickname |-> "", quick |-> FALSE]
NoSnap == [owner |-> None, to |-> None, after |-> {}, status |-> <<>>]

\* the functions with_lock wraps; each wrapper has its own lock, made when the
\* class body runs and so shared by every room
Wrapped == {"take_seat", "take_operator", "place_dog"}

\* Room.handlers as the class body leaves it.  add_handler stores the function
\* it is given and returns it unchanged; with_lock, written above add_handler,
\* wraps that return value and the result only becomes the class attribute.
\* The registry, which is all handle_data consults, therefore holds the
\* function without the lock, for every event type.
handlers ==
    [t \in {"hall.init", "user.take_seat", "room.remove_seat", "room.remove_player",
            "room.add_seat", "player.take_operator", "game.change_settings",
            "game.start", "board.init", "dog.place"} |->
        [fn |-> IF t = "user.take_seat" THEN "take_seat"
                ELSE IF t = "player.take_operator" THEN "take_operator"
                ELSE IF t = "dog.place" THEN "place_dog" ELSE t,
         locked |-> FALSE]]

\* make_handler: the annotations of the handler's parameters other than self
\* and me ("" where the handler has no such parameter)
param_types(t) ==
    [seat |-> IF t \in {"user.take_seat", "room.remove_seat", "room.remove_player"}
              THEN "int" ELSE "",
     nickname |-> IF t = "user.take_seat" THEN "str" ELSE "",
     quick |-> IF t = "game.change_settings" THEN "bool" ELSE "",
     position |-> IF t = "dog.place" THEN "int" ELSE ""]

\* Python's isinstance for JSON values: bool is a subclass of int
isinstance(val, annot) == val.t = annot \/ (annot = "int" /\ val.t = "bool")

\* the loop of make_handler.decorator: every annotated parameter is a key of
\* data and its value is an instance of the annotation
make_handler(t, raw) ==
    \A name \in {"seat", "nickname", "quick", "position"} :
        param_types(t)[name] # "" =>
            (raw[name].t # "absent" /\ isinstance(raw[name], param_types(t)[name]))

Nick(val) == IF val.t = "str" THEN <<"n1", "n2", "n3", "n4">>[val.v] ELSE ""

\* Room.handle_data with a frame as received: an unregistered type is printed
\* and dropped, make_handler returns at the first parameter that is missing
\* or mistyped, and otherwise the handler gets the values
handle_frame(st, target, raw) ==
    LET bare == [st EXCEPT !.out = [NoOut EXCEPT !.op = raw.type, !.me = target,
                                                 !.arg = raw.seat.v,
                                                 !.was = st.operator, !.raw = raw]]
    IN
    IF raw.type \notin DOMAIN handlers THEN bare
    ELSE IF ~make_handler(raw.type, raw) THEN bare
    ELSE [handle_data(st, target,
                      IF raw.type = "dog.place" THEN DogFrame(raw.position.v)
                      ELSE Frame(raw.type, raw.seat.v, Nick(raw.nickname), raw.quick.v = 1))
          EXCEPT !.out.raw = raw]

\* ---------------------------------------------------------------- actions
Init ==
    /\ seats = [k \in 1..seat_number |-> None]
    /\ users = [i \in UserIds |-> None]
    /\ operator = None
    /\ order_issuer = 0
    /\ gaming = FALSE
    /\ settings = TRUE
    /\ leader = None
    /\ last_message = ""
    /\ player_active = <<>>
    /\ player_dogs = <<>>
    /\ ws = [u \in Objs |-> None]
    /\ seat = [u \in Objs |-> -1]
    /\ nickname = [u \in Objs |-> ""]
    /\ order = [u \in Objs |-> 0]
    /\ cstate = [c \in Conns |-> "free"]
    /\ ctarget = [c \in Conns |-> None]
    /\ out = NoOut
    /\ pc = [c \in Conns |-> "recv"]
    /\ frame = [c \in Conns |-> NoFrame]
    /\ tasks = {}
    /\ snap = NoSnap
    /\ lock = [f \in Wrapped |-> None]
    /\ seat0 = [u \in Objs |-> -1]

\* a websocket is accepted and registers
Register(c) ==
    /\ cstate[c] = "free"
    /\ \E st \in {Cur} :
        /\ st.users[UidOf(st, c)] = None => DOMAIN st.seat \ Referenced(st) # {}
        /\ \E r \in {register_user(st, c, UidOf(st, c))} : Commit(r)
    /\ UNCHANGED asyncVars

\* the websocket's receive raises WebSocketDisconnect
Disconnect(c) ==
    /\ cstate[c] \in {"open", "closed"}
    /\ \E st \in {Cur} : \E r \in {unregister_user(st, c, UidOf(st, c))} : Commit(r)
    /\ UNCHANGED asyncVars

\* a frame arrives and its handler runs to the end
Handle(c, data) ==
    /\ cstate[c] = "open"
    /\ \E st \in {Cur} : \E r \in {handle_data(st, ctarget[c], data)} : Commit(r)
    /\ UNCHANGED asyncVars

HallInit(c) ==
    /\ cstate[c] = "open"
    /\ Handle(c, Frame("hall.init", 0, "", FALSE))

TakeSeat(c, s, nick) ==
    /\ cstate[c] = "open"
    /\ is_player(Cur, ctarget[c]) \/ order_issuer < MaxOrder
    /\ Handle(c, Frame("user.take_seat", s, nick, FALSE))

RemoveSeat(c, s) ==
    /\ cstate[c] = "open"
    /\ Handle(c, Frame("room.remove_seat", s, "", FALSE))

RemovePlayer(c, s) ==
    /\ cstate[c] = "open"
    /\ Handle(c, Frame("room.remove_player", s, "", FALSE))

AddSeat(c) ==
    /\ Len(seats) < MaxSeats
    /\ Handle(c, Frame("room.add_seat", 0, "", FALSE))

TakeOperator(c) ==
    /\ cstate[c] = "open"
    /\ Handle(c, Frame("player.take_operator", 0, "", FALSE))

ChangeSettings(c, quick) ==
    /\ cstate[c] = "open"
    /\ Handle(c, Frame("game.change_settings", 0, "", quick))

StartGame(c) ==
    /\ cstate[c] = "open"
    /\ Handle(c, Frame("game.start", 0, "", FALSE))

Next ==
    \/ \E c \in Conns : Register(c)
    \/ \E c \in Conns : Disconnect(c)
    \/ \E c \in Conns : HallInit(c)
    \/ \E c \in Conns, s \in SeatInputs : \E nick \in NicknamesOf(c) : TakeSeat(c, s, nick)
    \/ \E c \in Conns, s \in SeatInputs : RemoveSeat(c, s)
    \/ \E c \in Conns, s \in SeatInputs : RemovePlayer(c, s)
    \/ \E c \in Conns : AddSeat(c)
    \/ \E c \in Conns : TakeOperator(c)
    \/ \E c \in Conns, quick \in BOOLEAN : ChangeSettings(c, quick)
    \/ \E c \in Conns : StartGame(c)

\* one room from its construction, every handler running to its end
Spec == Init /\ [][Next]_allVars

\* ------------------------------------------------------- frames as received
\* The frames a client may send for five of the types, with each field the
\* handler declares absent, of its type or of another type, and a frame of a
\* type no handler is registered for.
RawFrames ==
    {[type |-> "user.take_seat", seat |-> sv, nickname |-> nv, quick |-> Absent,
      position |-> Absent] :
        sv \in {Absent, JInt(0), JInt(1), JBool(TRUE), JStr(1)},
        nv \in {Absent, JStr(1), JInt(0)}}
    \cup {[type |-> "room.remove_seat", seat |-> sv, nickname |-> Absent, quick |-> Absent,
      position |-> Absent] :
        sv \in {Absent, JInt(0), JBool(FALSE), JStr(1)}}
    \cup {[type |-> "game.change_settings", seat |-> Absent, nickname |-> Absent, quick |-> qv,
      position |-> Absent] :
        qv \in {Absent, JBool(TRUE), JBool(FALSE), JInt(0), JStr(1)}}
    \cup {[type |-> t, seat |-> Absent, nickname |-> Absent, quick |-> Absent,
      position |-> Absent] :
        t \in {"room.add_seat", "nonsense"}}

\* a frame arrives as the client sent it
RawFrame(c, raw) ==
    /\ cstate[c] = "open"
    /\ raw.type = "user.take_seat" => (is_player(Cur, ctarget[c]) \/ order_issuer < MaxOrder)
    /\ raw.type = "room.add_seat" => Len(seats) < MaxSeats
    /\ \E st \in {Cur} : \E r \in {handle_frame(st, ctarget[c], raw)} : Commit(r)
    /\ UNCHANGED asyncVars

FramesNext ==
    \/ \E c \in Conns : Register(c)
    \/ \E c \in Conns, raw \in RawFrames : RawFrame(c, raw)

SpecFrames == Init /\ [][FramesNext]_allVars

\* ------------------------------------------------------- duplicate logins
\* One user id and LoginConns websockets carrying it, in a fresh room: every
\* websocket after the first is a second login.  register_user is suspended
\* while User.update_ws awaits ws.close, and the other receive loops run.
LoginInit ==
    /\ seats = [k \in 1..seat_number |-> None]
    /\ users = [i \in 1..1 |-> None]
    /\ operator = None
    /\ order_issuer = 0
    /\ gaming = FALSE
    /\ settings = TRUE
    /\ leader = None
    /\ last_message = ""
    /\ player_active = <<>>
    /\ player_dogs = <<>>
    /\ ws = [u \in 1..LoginObjs |-> None]
    /\ seat = [u \in 1..LoginObjs |-> -1]
    /\ nickname = [u \in 1..LoginObjs |-> ""]
    /\ order = [u \in 1..LoginObjs |-> 0]
    /\ cstate = [c \in 1..LoginConns |-> "free"]
    /\ ctarget = [c \in 1..LoginConns |-> None]
    /\ out = NoOut
    /\ pc = [c \in 1..LoginConns |-> "recv"]
    /\ frame = [c \in 1..LoginConns |-> NoFrame]
    /\ tasks = {}
    /\ snap = NoSnap
    /\ lock = [f \in Wrapped |-> None]
    /\ seat0 = [u \in 1..LoginObjs |-> -1]

\* ws.close has returned: User.update_ws binds the websocket and register_user
\* sends room.status
RegisterBind(c) ==
    /\ cstate[c] = "rebinding"
    /\ \E st \in {Cur} : \E r \in {register_bind(st, c)} : Commit(r)
    /\ UNCHANGED asyncVars

LoginNext ==
    \/ \E c \in 1..LoginConns : Register(c)
    \/ \E c \in 1..LoginConns : RegisterBind(c)
    \/ \E c \in 1..LoginConns : Disconnect(c)
    \/ \E c \in 1..LoginConns, s \in 0..(seat_number - 1) :
           \E nick \in NicknamesOf(c) : TakeSeat(c, s, nick)

SpecLogin == LoginInit /\ [][LoginNext]_allVars

\* --------------------------------------------------------------- the game
\* A room from its construction to the game: users register and sit down, the
\* operator starts the game, and the players ask for the board and place
\* their dogs, every handler running to its end.
BoardInit(c) ==
    /\ cstate[c] = "open"
    /\ Handle(c, Frame("board.init", 0, "", FALSE))

PlaceDog(c, p) ==
    /\ cstate[c] = "open"
    /\ Handle(c, DogFrame(p))

GameNext ==
    \/ \E c \in Conns : Register(c)
    \/ \E c \in Conns : Disconnect(c)
    \/ \E c \in Conns, s \in 0..(seat_number - 1) :
           \E nick \in NicknamesOf(c) : TakeSeat(c, s, nick)
    \/ \E c \in Conns, s \in 0..(seat_number - 1) : RemoveSeat(c, s)
    \/ \E c \in Conns : StartGame(c)
    \/ \E c \in Conns : BoardInit(c)
    \/ \E c \in Conns, p \in 0..MaxPosition : PlaceDog(c, p)

SpecGame == Init /\ [][GameNext]_allVars

\* ------------------------------------------------ the succession scenarios
\* Rooms in which Players users have registered, the operator has added seats
\* up to Players and user i has taken seat i - 1; they sat down in any order,
\* any of them may have disconnected since, and any of them may be the
\* operator (the first to sit, or one that took over from an offline operator).
Perms(n) == {f \in [1..n -> 1..n] : \A i, j \in 1..n : f[i] = f[j] => i = j}

SuccessionInit ==
    \E ord \in Perms(Players), online \in SUBSET (1..Players), op \in 1..Players :
        /\ seats = [k \in 1..Players |-> k]
        /\ users = [i \in 1..Players |-> i]
        /\ operator = op
        /\ order_issuer = Players
        /\ gaming = FALSE
        /\ settings = TRUE
        /\ leader = None
        /\ last_message = ""
        /\ player_active = <<>>
        /\ player_dogs = <<>>
        /\ ws = [u \in 1..Players |-> IF u \in online THEN u ELSE None]
        /\ seat = [u \in 1..Players |-> u - 1]
        /\ nickname = [u \in 1..Players |-> CHOOSE n \in NicknamesOf(u) : TRUE]
        /\ order = ord
        /\ cstate = [c \in 1..Players |-> IF c \in online THEN "open" ELSE "free"]
        /\ ctarget = [c \in 1..Players |-> IF c \in online THEN c ELSE None]
        /\ out = NoOut
        /\ pc = [c \in 1..Players |-> "recv"]
        /\ frame = [c \in 1..Players |-> NoFrame]
        /\ tasks = {}
        /\ snap = NoSnap
        /\ lock = [f \in Wrapped |-> None]
        /\ seat0 = [u \in 1..Players |-> u - 1]

SuccessionNext ==
    \/ \E c \in 1..Players, s \in (0 - 1)..Players : RemovePlayer(c, s)
    \/ \E c \in 1..Players, s \in (0 - 1)..Players :
           \E nick \in NicknamesOf(c) : TakeSeat(c, s, nick)
    \/ \E c \in 1..Players : TakeOperator(c)
    \/ \E c \in 1..Players : Disconnect(c)

SpecSuccession == SuccessionInit /\ [][SuccessionNext]_allVars

\* ------------------------------------------------- concurrent take_seat frames
\* Rooms in which every user is registered and online, some of them seated (in
\* the order of their numbers, so the first is the operator), and a
\* user.take_seat frame for a seat of the room has arrived on every websocket.
\* The handlers are coroutines of one event loop: one runs without interruption
\* up to an await that suspends it, which in every hall handler is the await of
\* broadcast_data, after all its writes.
Placements(n) ==
    {f \in [UserIds -> (0 - 1)..(n - 1)] :
        /\ \A i, j \in UserIds : (f[i] = f[j] /\ f[i] > -1) => i = j
        /\ n > seat_number => \E i \in UserIds : f[i] > -1}

RankAmong(f, u) == Cardinality({v \in UserIds : f[v] > -1 /\ v <= u})

AsyncInit ==
    \E n \in seat_number..MaxSeats :
    \E f \in Placements(n), target \in [Conns -> 0..(n - 1)] :
        /\ seats = [k \in 1..n |->
                        IF \E u \in UserIds : f[u] = k - 1
                        THEN CHOOSE u \in UserIds : f[u] = k - 1 ELSE None]
        /\ users = [i \in UserIds |-> i]
        /\ operator = IF \E u \in UserIds : f[u] > -1
                      THEN CHOOSE u \in UserIds : f[u] > -1 /\ RankAmong(f, u) = 1
                      ELSE None
        /\ order_issuer = Cardinality({u \in UserIds : f[u] > -1})
        /\ gaming = FALSE
        /\ settings = TRUE
        /\ leader = None
        /\ last_message = ""
        /\ player_active = <<>>
        /\ player_dogs = <<>>
        /\ ws = [u \in Objs |-> u]
        /\ seat = f
        /\ nickname = [u \in Objs |-> IF f[u] > -1 THEN CHOOSE x \in NicknamesOf(u) : TRUE ELSE ""]
        /\ order = [u \in Objs |-> IF f[u] > -1 THEN RankAmong(f, u) ELSE 0]
        /\ cstate = [c \in Conns |-> "open"]
        /\ ctarget = [c \in Conns |-> c]
        /\ out = NoOut
        /\ pc = [c \in Conns |-> "frame"]
        /\ frame = [c \in Conns |->
                        Frame("user.take_seat", target[c], CHOOSE x \in NicknamesOf(c) : TRUE, FALSE)]
        /\ tasks = {}
        /\ snap = NoSnap
        /\ lock = [f2 \in Wrapped |-> None]
        /\ seat0 = f

\* Room.handle_data calls the registered function, which runs up to its first
\* suspension: broadcast_data has created one send task per value of
\* Room.users and awaits them; a handler that broadcasts nothing has returned
AStart(c) ==
    /\ pc[c] = "frame"
    /\ handlers[frame[c].type].locked => lock[handlers[frame[c].type].fn] = None
    /\ \E st \in {Cur} : \E r \in {handle_data(st, ctarget[c], frame[c])} :
        /\ Commit(r)
        /\ IF r.out.to = "all"
           THEN /\ tasks' = tasks \cup {[owner |-> c, to |-> u] : u \in Range(r.users) \ {None}}
                /\ pc' = [pc EXCEPT ![c] = "await"]
                /\ lock' = IF handlers[frame[c].type].locked
                           THEN [lock EXCEPT ![handlers[frame[c].type].fn] = c] ELSE lock
           ELSE /\ pc' = [pc EXCEPT ![c] = "done"]
                /\ UNCHANGED <<tasks, lock>>
    /\ UNCHANGED <<frame, snap, seat0>>

\* a send task runs: Room.send_data_to computes get_seat_status(me = user) and
\* hands it to User.send_data
ARunTask(t) ==
    /\ t \in tasks
    /\ tasks' = tasks \ {t}
    /\ snap' = [owner |-> t.owner, to |-> t.to,
                after |-> {c \in DOMAIN pc : pc[c] \in {"await", "done"}},
                status |-> get_seat_status(Cur, t.to)]
    /\ UNCHANGED <<roomVars, pc, frame, lock, seat0>>

\* asyncio.gather returns once every task of the broadcast has finished, and
\* the handler returns, through the with_lock wrapper if it was called by it
AFinish(c) ==
    /\ pc[c] = "await"
    /\ \A t \in tasks : t.owner # c
    /\ pc' = [pc EXCEPT ![c] = "done"]
    /\ lock' = [f \in DOMAIN lock |-> IF lock[f] = c THEN None ELSE lock[f]]
    /\ UNCHANGED <<roomVars, frame, tasks, snap, seat0>>

AsyncNext ==
    \/ \E c \in Conns : AStart(c)
    \/ \E t \in tasks : ARunTask(t)
    \/ \E c \in Conns : AFinish(c)

SpecAsync == AsyncInit /\ [][AsyncNext]_allVars

\* ------------------------------------------------------------------ claims
IsOnline(u) == is_online(Cur, u)
Seated(u) == \E k \in 1..Len(seats) : seats[k] = u
Refs == Referenced(Cur)
\* the room apart from the operator
RoomKept ==
    /\ seats' = seats /\ users' = users /\ order_issuer' = order_issuer
    /\ gaming' = gaming /\ settings' = settings /\ leader' = leader
\* every User still referred to keeps its fields
UsersKept ==
    \A u \in DOMAIN seat : u \in Refs' =>
        /\ ws'[u] = ws[u] /\ seat'[u] = seat[u]
        /\ nickname'[u] = nickname[u] /\ order'[u] = order[u]

\* C1: seats and seated users form a bijection: seats[i] holds user u if and
\* only if u.seat = i.
SeatBijection ==
    \A u \in DOMAIN seat : \A k \in 1..Len(seats) :
        (seats[k] = u) <=> (seat[u] = k - 1)

\* C2: a non-null operator is a user that occupies a seat of the room and is
\* still a record of the room's users.
OperatorIsSeatedUser ==
    operator # None => (Seated(operator) /\ operator \in Range(users))

\* C3: of the take_seat handlers that target the same seat, empty when the
\* frames arrived, the first to run takes the seat and it stays the only one:
\* the seat holds that user, every other contender that has run has the seat
\* state it had, and every seat.status computed after a contender ran shows the
\* seat with that one occupant.
RaceContenders(s) == {c \in DOMAIN pc : frame[c].seat = s}
RaceStarted(c) == pc[c] \in {"await", "done"}
RaceOpen(s) ==
    /\ s < Len(seats)
    /\ \A u \in DOMAIN seat0 : seat0[u] # s
    /\ Cardinality(RaceContenders(s)) >= 2
RaceOneWinner ==
    \A s \in 0..(MaxSeats - 1) :
        (RaceOpen(s) /\ \E c \in RaceContenders(s) : RaceStarted(c)) =>
            \E w \in RaceContenders(s) :
                /\ RaceStarted(w)
                /\ seats[s + 1] = ctarget[w] /\ seat[ctarget[w]] = s
                /\ \A l \in RaceContenders(s) \ {w} :
                      /\ seats[s + 1] # ctarget[l]
                      /\ seat[ctarget[l]] = seat0[ctarget[l]]
                      /\ seat0[ctarget[l]] > -1 => seats[seat0[ctarget[l]] + 1] = ctarget[l]
                /\ (snap # NoSnap /\ snap.after \cap RaceContenders(s) # {}) =>
                      /\ Len(snap.status[s + 1]) = 1
                      /\ snap.status[s + 1][1].nickname = nickname[ctarget[w]]
                      /\ snap.status[s + 1][1].me = (snap.to = ctarget[w])

\* C3 witness: two handlers raced for an empty seat, both have returned, and a
\* snapshot computed after both had run went to the loser.
RaceWitness ==
    \E s \in 0..(MaxSeats - 1) : \E w, l \in RaceContenders(s) :
        /\ RaceOpen(s) /\ w # l
        /\ pc[w] = "done" /\ pc[l] = "done"
        /\ seats[s + 1] = ctarget[w]
        /\ {w, l} \subseteq snap.after /\ snap.to = ctarget[l]
        /\ Len(snap.status[s + 1]) = 1 /\ ~snap.status[s + 1][1].me

\* C4: no two seat- or operator-mutating handlers of a room are in progress at
\* the same time: the second starts only after the first has finished.
HandlersSerialized ==
    \A a, b \in DOMAIN pc : (pc[a] = "await" /\ pc[b] = "await") => a = b

\* C5: take_operator changes the operator only when the operator is none or not
\* live and the sender is not the operator, and then to the sender; it changes
\* nothing else; in the waiting hall it does change it whenever that holds; so
\* a claim against a live operator is rejected.
TakeOperatorRule ==
    [][out'.op = "player.take_operator" =>
        LET me == out'.me
            vacant == operator = None \/ ~IsOnline(operator)
        IN /\ RoomKept /\ UsersKept
           /\ operator' # operator => (vacant /\ me # operator /\ operator' = me)
           /\ (~gaming /\ vacant /\ me # operator) =>
                 (operator' = me /\ out'.kind = "seat.status" /\ out'.to = "all")
           /\ operator' = operator => out'.kind = ""
           /\ (~vacant) => operator' = operator]_allVars

\* C5 witness: in the waiting hall a user that took over (it sat down after a
\* user that is still seated) is the live operator, and the claim of that other
\* user has just been rejected.
TakeOperatorWitness ==
    /\ out.op = "player.take_operator" /\ out.kind = "" /\ ~gaming
    /\ operator # None /\ out.was = operator /\ out.me # operator
    /\ IsOnline(operator) /\ Seated(operator)
    /\ Seated(out.me) /\ order[out.me] > 0 /\ order[out.me] < order[operator]

\* C6: remove_player runs the succession exactly when the user leaving the seat
\* was the operator: the new operator is then a seated user with a live
\* connection of the smallest joinOrder among those, or none when no seated user
\* is live, and it differs from the old one unless that user still holds a
\* seat; in every other case the operator is unchanged.
IsSuccessor ==
    LET cands == {u \in Range(seats) \ {None} : IsOnline(u)} IN
    IF cands = {} THEN operator = None
    ELSE operator \in cands /\ \A v \in cands : order[operator] <= order[v]
RemovePlayerSuccession ==
    [][out'.op = "room.remove_player" =>
        LET s == out'.arg
            departing == IF InRange(seats, s) THEN seats[Pos(seats, s)] ELSE None
            removed == out'.kind = "seat.status"
        IN /\ (removed /\ departing = operator) => IsSuccessor'
           /\ (removed /\ departing = operator
               /\ \A k \in 1..Len(seats') : seats'[k] # departing) => operator' # operator
           /\ ~(removed /\ departing = operator) => operator' = operator
           /\ removed => (departing # None /\ seats'[Pos(seats, s)] = None)]_allVars

\* C6 witness: the operator has left its seat itself, two live seated users
\* remain, and the new operator is the one with the smaller joinOrder although
\* it sits behind the other.
SuccessionWitness ==
    /\ out.op = "room.remove_player" /\ out.kind = "seat.status"
    /\ out.was = out.me /\ ~Seated(out.me) /\ operator # None /\ operator # out.me
    /\ \E i, j \in 1..Len(seats) :
          /\ i < j /\ seats[j] = operator /\ seats[i] # None /\ seats[i] # operator
          /\ IsOnline(seats[i]) /\ IsOnline(seats[j])
          /\ order[seats[j]] < order[seats[i]]

\* C7: a successful take_seat for a seat of the room leaves the user in that
\* seat and in no other, leaves every other seat as it was, and makes the user
\* operator exactly when there was none.
TakeSeatEffect ==
    [][(out'.op = "user.take_seat" /\ out'.kind = "seat.status"
        /\ out'.arg >= 0 /\ out'.arg < Len(seats)) =>
        /\ Len(seats') = Len(seats)
        /\ \A k \in 1..Len(seats) :
              seats'[k] = IF k = out'.arg + 1 THEN out'.me
                          ELSE IF seats[k] = out'.me THEN None ELSE seats[k]
        /\ operator' = IF operator = None THEN out'.me ELSE operator]_allVars

\* C8: take_seat for a seat out of bounds or occupied by another user is a
\* silent no-op: nothing changes, nothing is sent, nothing is raised.
TakeSeatBadTargetIsNoOp ==
    [][(out'.op = "user.take_seat"
        /\ (out'.arg < 0 \/ out'.arg >= Len(seats)
            \/ seats[out'.arg + 1] \notin {None, out'.me})) =>
        /\ RoomKept /\ UsersKept /\ operator' = operator
        /\ out'.kind = "" /\ out'.raised = ""]_allVars

\* C9: take_seat(u, s) while u occupies seat s changes no room or user state
\* and sends nothing.
TakeOwnSeatIsNoOp ==
    [][(out'.op = "user.take_seat" /\ out'.arg >= 0
        /\ (seat[out'.me] = out'.arg
            \/ (out'.arg < Len(seats) /\ seats[out'.arg + 1] = out'.me))) =>
        /\ UNCHANGED <<seats, users, operator, order_issuer, gaming, settings, leader,
                       ws, seat, nickname, order, cstate, ctarget>>
        /\ out'.kind = "" /\ out'.to = "" /\ out'.raised = ""]_allVars

\* C9 witness: the room has seated users, and the last frame was a take_seat by
\* a seated user for the seat it occupies.
TakeOwnSeatWitness ==
    /\ out.op = "user.take_seat" /\ out.arg >= 0 /\ out.arg < Len(seats)
    /\ seats[out.arg + 1] = out.me /\ seat[out.me] = out.arg
    /\ out.kind = "" /\ out.raised = ""
    /\ \E k \in 1..Len(seats) : seats[k] = None

\* C10: a user's joinOrder is the room's next counter value when it acquires a
\* seat while holding none, it is not changed while the user stays seated (a
\* move), and any two distinct seated users have different joinOrder values.
JoinOrderRule ==
    [][/\ \A u \in DOMAIN seat :
            /\ (Seated(u) /\ Seated(u)') => order'[u] = order[u]
            /\ (~Seated(u) /\ Seated(u)') =>
                  (order'[u] = order_issuer + 1 /\ order_issuer' = order_issuer + 1)
       /\ \A u, v \in DOMAIN seat :
            (u # v /\ Seated(u)' /\ Seated(v)') => order'[u] # order'[v]]_allVars

\* C11: the stage never goes back from Gaming to Waiting; it becomes Gaming
\* only by a game.start frame of the operator and only when no seat is empty;
\* a game.start that finds an empty seat leaves the stage and sends nothing.
StageRule ==
    [][/\ gaming => gaming'
       /\ (~gaming /\ gaming') =>
             /\ out'.op = "game.start" /\ out'.me = operator
             /\ \A k \in 1..Len(seats) : seats[k] # None
       /\ (out'.op = "game.start" /\ \E k \in 1..Len(seats) : seats[k] = None) =>
             /\ gaming' = gaming /\ RoomKept /\ UsersKept /\ operator' = operator
             /\ out'.kind = ""]_allVars

\* C11 witness: the operator's game.start in a room of two occupied seats has
\* made the stage Gaming and was broadcast.
StageWitness ==
    /\ gaming /\ out.op = "game.start" /\ out.me = operator
    /\ out.kind = "room.status" /\ out.to = "all"
    /\ Len(seats) = 2 /\ seats[1] # None /\ seats[2] # None /\ seats[1] # seats[2]

\* C12: remove_seat, add_seat, change_settings and start_game of a sender that
\* is not the operator, and remove_player of a sender that is neither the
\* operator nor the occupant of the seat addressed, change nothing and send
\* nothing.
Unauthorised ==
    /\ out'.me # operator
    /\ \/ out'.op \in {"room.remove_seat", "room.add_seat", "game.change_settings",
                       "game.start"}
       \/ /\ out'.op = "room.remove_player"
          /\ ~(InRange(seats, out'.arg) /\ seats[Pos(seats, out'.arg)] = out'.me)
UnauthorisedIsNoOp ==
    [][Unauthorised =>
        /\ RoomKept /\ UsersKept /\ operator' = operator
        /\ out'.kind = "" /\ out'.to = ""]_allVars

\* C12 witness: a seated user that is not the operator has asked to remove the
\* operator from its seat, and nothing was sent.
UnauthorisedWitness ==
    /\ out.op = "room.remove_player" /\ out.kind = "" /\ ~gaming
    /\ operator # None /\ out.me # operator /\ Seated(out.me)
    /\ out.arg >= 0 /\ out.arg < Len(seats) /\ seats[out.arg + 1] = operator

\* C13: remove_seat(seat) of the operator for a seat of the room changes nothing
\* when the seat is occupied; when it is empty the slot goes, the occupants keep
\* their relative order, every user seated after the slot has its seat index
\* decremented by one and every user seated before it keeps its index.
RemoveSeatEffect ==
    [][(out'.op = "room.remove_seat" /\ out'.me = operator /\ ~gaming
        /\ out'.arg >= 0 /\ out'.arg < Len(seats)) =>
        LET p == out'.arg + 1 IN
        IF seats[p] # None
        THEN RoomKept /\ UsersKept /\ operator' = operator /\ out'.kind = ""
        ELSE /\ Len(seats') = Len(seats) - 1
             /\ \A k \in 1..Len(seats') : seats'[k] = IF k < p THEN seats[k] ELSE seats[k + 1]
             /\ \A k \in 1..Len(seats) : seats[k] # None =>
                   seat'[seats[k]] = IF k > p THEN seat[seats[k]] - 1 ELSE seat[seats[k]]]_allVars

\* C14: on the disconnection of a user that holds a seat (User.is_player) the
\* record, the seat list and the user's seat are kept, its connection becomes
\* absent, it is shown online: false and seat.status is broadcast; on that of a
\* user that holds none the record is deleted and nothing else changes.
DisconnectRule ==
    [][(out'.op = "disconnect" /\ out'.me # None) =>
        LET u == out'.me
            uid == UidOf(Cur, out'.arg)
        IN
        /\ seats' = seats /\ operator' = operator /\ order_issuer' = order_issuer
        /\ gaming' = gaming /\ settings' = settings
        /\ \A v \in DOMAIN seat : (v # u /\ v \in Refs') =>
              /\ ws'[v] = ws[v] /\ seat'[v] = seat[v]
              /\ nickname'[v] = nickname[v] /\ order'[v] = order[v]
        /\ IF seat[u] > -1
           THEN /\ users' = users
                /\ seat'[u] = seat[u] /\ nickname'[u] = nickname[u] /\ order'[u] = order[u]
                /\ ws'[u] = None
                /\ \A k \in 1..Len(seats) : seats[k] = u =>
                      ~get_seat_status(Cur, None)'[k][1].online
                /\ out'.kind = "seat.status" /\ out'.to = "all"
           ELSE /\ users' = [users EXCEPT ![uid] = None]
                /\ out'.kind = ""]_allVars

\* C14 witness: a seated user has disconnected while another user is online;
\* the record is kept with no connection and the roster was broadcast.
DisconnectWitness ==
    /\ out.op = "disconnect" /\ out.me # None /\ out.kind = "seat.status"
    /\ Seated(out.me) /\ out.me \in Range(users) /\ ws[out.me] = None
    /\ \E v \in Range(users) \ {None, out.me} : IsOnline(v)

\* C16: when register_user binds a connection for a user that holds a seat,
\* seat.status is sent to every member of the room; when the user holds no
\* seat, nothing is sent to all.
RegisterBroadcastsRoster ==
    [][(/\ out'.op \in {"user.register", "user.bind"} /\ out'.me # None
        /\ ws'[out'.me] = out'.arg /\ ws[out'.me] # out'.arg) =>
        IF seat[out'.me] > -1
        THEN out'.kind = "seat.status" /\ out'.to = "all"
        ELSE out'.to # "all"]_allVars

\* C18: while the stage is Gaming no frame of a registered type (the eight
\* waiting-hall types and the two of the game) changes the
\* seat list, a user's seat index or joinOrder, the operator or the settings.
FrozenWhileGaming ==
    [][(gaming /\ out'.op \in DOMAIN handlers) =>
        UNCHANGED <<seats, seat, order, operator, settings>>]_allVars

\* C18 witness: the stage is Gaming and the operator's room.add_seat frame, for
\* a room that could take a seat more, has been handled.
FrozenWitness ==
    /\ gaming /\ out.op = "room.add_seat" /\ out.me = operator
    /\ Len(seats) >= 1 /\ Len(seats) < MaxSeats /\ out.kind = ""

\* C20: while the stage is Gaming the room has at least one seat, every seat is
\* occupied and the leader is the occupant of seat 0.
GamingInitialised ==
    gaming =>
        /\ Len(seats) >= 1
        /\ \A k \in 1..Len(seats) : seats[k] # None
        /\ leader # None /\ leader = seats[1]

\* C17: a frame of a type no handler is registered for, or in which a field
\* the handler declares is missing or is not of the declared JSON type, is
\* dropped: nothing changes, nothing is sent, nothing is raised.
Malformed(raw) ==
    \/ raw.type \notin DOMAIN handlers
    \/ \E name \in {"seat", "nickname", "quick", "position"} :
          /\ param_types(raw.type)[name] # ""
          /\ raw[name].t # param_types(raw.type)[name]
MalformedIsDropped ==
    [][(out'.raw # NoRaw /\ Malformed(out'.raw)) =>
        /\ RoomKept /\ UsersKept /\ operator' = operator
        /\ out'.kind = "" /\ out'.to = "" /\ out'.raised = ""]_allVars

\* C15: once no registration is suspended, no two websockets that were bound
\* to the same user and have not been closed are left: the user is bound to
\* one connection and every connection bound to it earlier has been closed.
LoginSingleBinding ==
    (\A c \in DOMAIN cstate : cstate[c] # "rebinding") =>
        \A c, d \in DOMAIN cstate :
            (cstate[c] = "open" /\ cstate[d] = "open" /\ ctarget[c] = ctarget[d]) => c = d

\* C19: when a websocket that was closed for a duplicate login, and is no
\* longer the one bound to the user, disconnects, the user's record stays in
\* the room and stays bound to, and online on, the new websocket.
Superseded(c) ==
    /\ cstate[c] = "closed"
    /\ users[UidOf(Cur, c)] # None
    /\ ws[users[UidOf(Cur, c)]] \notin {None, c}
    /\ cstate[ws[users[UidOf(Cur, c)]]] = "open"
SupersededDisconnectKeepsUser ==
    [][(out'.op = "disconnect" /\ Superseded(out'.arg)) =>
        LET uid == UidOf(Cur, out'.arg)
            u == users[uid]
        IN /\ users'[uid] = u
           /\ ws'[u] = ws[u]
           /\ ws'[u] # None /\ cstate'[ws'[u]] \in {"open", "rebinding", "closed"}]_allVars

\* C21: no data type the room hands to send_data_to is undefined: the stored
\* last_message is always one of the kinds send_data_to has a case for, and
\* no handler ends in the "No such data type" error.
DataKindsDefined ==
    /\ last_message \in DataKinds \cup {""}
    /\ out.raised # "No such data type"

====
